---- MODULE Spec2Model ----
(***************************************************************************)
(* The random-access chunk reader of weed/filer/reader_at.go, and the      *)
(* directory handles and the paginated directory listing of the mount      *)
(* package in the same file.                                               *)
(*                                                                         *)
(* A ChunkReadAt serves ReadAt(p, offset) over an ordered list of chunk    *)
(* views.  Whole chunks are obtained through a per-reader singleflight     *)
(* group in front of a shared chunk cache and the wire fetch; after a      *)
(* chunk is obtained the next view's chunk is fetched by a detached        *)
(* goroutine.                                                              *)
(*                                                                         *)
(* Granularity.  Code that touches only the state of one call (the walk of *)
(* doReadAt, the recency slot, which is only accessed under readerLock) is *)
(* executed atomically up to the next access to shared state: the          *)
(* singleflight registry, the chunk cache, the location cache, the wire.   *)
(* singleflight.Group.Do is modelled by its contract: a caller that finds  *)
(* a call for the key in flight waits for it and receives its result,      *)
(* otherwise it runs fn; the key is released when fn returns.              *)
(*                                                                         *)
(* Environment.  Every reader is built with a chunk cache (chunkCache is   *)
(* not nil); the cache may drop entries at any time.  A location lookup    *)
(* and a wire fetch may fail until Recover.  The chunks are immutable.     *)
(* lookupFileId reads the location cache, releases its lock and only then  *)
(* calls LookupVolume: the two are separate steps.                         *)
(*                                                                         *)
(* Directories.  AcquireDirectoryHandle is four steps (lock, read nextFh,  *)
(* increment and unlock, insert); a call of doReadDirectory is one step,   *)
(* the calls on one handle following one another.  The directory does not  *)
(* change.  A DirEntryList takes a number of entries.                      *)
(***************************************************************************)
EXTENDS Bags, FiniteSets, Integers, Sequences, TLC

\* ------------------------------------------------------------------ bounds
MaxLen == 3          \* longest buffer p handed to ReadAt
MaxOffset == 7       \* largest offset handed to ReadAt
MaxReadAhead == 1    \* read-ahead goroutines alive at the same time
MaxFh == 2           \* handle ids taken from nextFh
MaxCounter == 6      \* largest DirectoryHandle.counter

\* ------------------------------------------------------------ the universe
Callers == {"c1", "c2"}
DirCallers == {"d1", "d2"}

\* The unchanging directory, in listing order.
DirEntries == <<"a", "b", "c">>
Readers == {"r1", "r2"}
FileIds == {"1,a", "1,b"}
Junk == 99           \* what a byte of p holds before the call, if not 0

Min(a, b) == IF a < b THEN a ELSE b
Max(a, b) == IF a > b THEN a ELSE b

VolumeId(fileId) == CASE fileId = "1,a" -> "1"
                      [] fileId = "1,b" -> "1"
                      [] OTHER -> fileId
Volumes == {VolumeId(f) : f \in FileIds}

\* The immutable content of the remote chunks.
ChunkData(fileId) == CASE fileId = "1,a" -> <<11, 12, 13>>
                       [] fileId = "1,b" -> <<21>>
                       [] OTHER -> <<>>

ChunkView(fileId, offset, logicOffset, size) ==
    [FileId |-> fileId, Offset |-> offset, LogicOffset |-> logicOffset,
     Size |-> size, ChunkSize |-> Len(ChunkData(fileId))]

\* The files a reader can be built over: ordered, non-overlapping views
\* inside [0, fileSize).
Files ==
    << [chunkViews |-> << >>, fileSize |-> 3],
       [chunkViews |-> << ChunkView("1,a", 1, 1, 2), ChunkView("1,b", 0, 4, 1) >>,
        fileSize |-> 6],
       [chunkViews |-> << ChunkView("1,a", 0, 0, 1), ChunkView("1,a", 2, 1, 1),
                          ChunkView("1,b", 0, 2, 1) >>,
        fileSize |-> 3] >>

FetchErrors == {"lookup", "fetch"}

VARIABLES
    file,             \* index in Files of the file the readers are built over
    readerLock,       \* ChunkReadAt.readerLock: the holder, or ""
    lastChunkFileId,  \* ChunkReadAt.lastChunkFileId
    lastChunkData,    \* ChunkReadAt.lastChunkData
    vidCache,         \* the vidCache of the reader's lookupFileId closure
    chunkCache,       \* the shared chunk cache: FileId -> bytes, <<>> = miss
    flights,          \* bag of running singleflight fn executions
    ra,               \* bag of read-ahead goroutines not running fn
    call,             \* per caller: the ReadAt call in progress or returned
    healthy,          \* TRUE once lookups and wire fetches no longer fail
    concurrent,       \* FALSE: one caller of one reader; TRUE: two of two
    nextFh,           \* FileHandleToInode.nextFh, the handle id sequencer
    fhmapLock,        \* the mutex of wfs.fhmap: the holder, or ""
    dir2inode,        \* DirectoryHandleToInode.dir2inode: id -> handle
    allocated,        \* the number of DirectoryHandle objects allocated
    dcall,            \* per directory caller: position, locals and result
    issued,           \* bag of the handle ids handed out
    acquired          \* the pairs <<id, object>> AcquireDirectoryHandle
                      \* returned, until ReleaseDirectoryHandle(id)

dirVars == <<nextFh, fhmapLock, dir2inode, allocated, dcall, issued, acquired>>

vars == <<file, readerLock, lastChunkFileId, lastChunkData, vidCache,
          chunkCache, flights, ra, call, healthy, concurrent, dirVars>>

chunkViews == Files[file].chunkViews
fileSize == Files[file].fileSize

\* The locations LookupVolume returns for a volume: two for the single
\* caller, one for the two callers.
NodeLists == IF concurrent THEN {<<"n1">>} ELSE {<<"n1", "n2">>}

\* A caller with no call yet.  Beyond the variables of ReadAt and doReadAt
\* a call records: buffer, the result readOneWholeChunk handed to a caller
\* that waited; coord, its calls of readOneWholeChunk; joined, whether the
\* readOneWholeChunk that is under way or failed waited for a call in flight;
\* errBy, who ran the fn that produced its error; reissue, whether the call
\* repeats a call that failed, now that the collaborators succeed.
NoCall ==
    [pc |-> "idle", r |-> "", offset |-> 0, p |-> << >>, n |-> 0, err |-> "nil",
     i |-> 0, startOffset |-> 0, remaining |-> 0, buffer |-> << >>,
     coord |-> 0, joined |-> FALSE, errBy |-> "", reissue |-> FALSE]

\* The windows [offset, offset+len) the callers read: the two callers the
\* window over both chunks, the single caller every window that begins at
\* most one byte past the end of the file.
Windows ==
    IF concurrent THEN {<<1, 4>>}
    ELSE (0..Min(MaxOffset, fileSize + 1)) \X (0..MaxLen)

\* The callers, and the readers a caller reads: c1 reads r1, c2 any reader.
Active == IF concurrent THEN Callers ELSE {"c1"}
ReadersOf(t) == IF concurrent /\ t # "c1" THEN Readers ELSE {"r1"}

InitReaders ==
    /\ readerLock = [r \in Readers |-> ""]
    /\ lastChunkFileId = [r \in Readers |-> ""]
    /\ lastChunkData = [r \in Readers |-> << >>]
    /\ vidCache = [r \in Readers |-> [v \in Volumes |-> << >>]]
    /\ chunkCache = [k \in FileIds |-> << >>]
    /\ flights = EmptyBag
    /\ ra = EmptyBag
    /\ call = [t \in Callers |-> NoCall]
    /\ healthy = FALSE

\* A directory caller with no call yet.  dh is the handle object a call
\* returned, counted from 1; out the entries of its DirEntryList.
NoDirCall ==
    [pc |-> "idle", op |-> "", fh |-> 0, dh |-> 0, out |-> << >>, code |-> "OK"]

\* NewDirectoryHandleToInode, and a sequencer that has handed out nothing.
InitHandles ==
    /\ nextFh = 0
    /\ fhmapLock = ""
    /\ dir2inode = << >>
    /\ allocated = 0
    /\ dcall = [t \in DirCallers |-> NoDirCall]
    /\ issued = EmptyBag
    /\ acquired = {}

\* One caller of one reader, over any of the files.
Init ==
    /\ file \in 1..Len(Files)
    /\ concurrent = FALSE
    /\ InitReaders
    /\ InitHandles

\* Two callers of two readers of the file with a gap between two chunks.
InitConcurrent ==
    /\ file = 2
    /\ concurrent = TRUE
    /\ InitReaders
    /\ InitHandles

\* ------------------------------------------------------------- doReadAt
\* CopyChunk reading the chunk from the start of the view's window instead of
\* from chunk.Offset.
CopyChunkNoOffset(c, chunk, buffer) ==
    LET chunkStart == Max(chunk.LogicOffset, c.startOffset)
        chunkStop == Min(chunk.LogicOffset + chunk.Size, c.startOffset + c.remaining)
        bufferOffset == chunkStart - chunk.LogicOffset
        dst == c.startOffset - c.offset
        copied == chunkStop - chunkStart
    IN [c EXCEPT
          !.p = [j \in 1..Len(c.p) |->
                    IF dst < j /\ j <= dst + copied
                    THEN buffer[bufferOffset + (j - dst)] ELSE c.p[j]],
          !.n = @ + copied,
          !.startOffset = @ + copied,
          !.remaining = @ - copied]

\* copy(p[startOffset-offset : ...], buffer[bufferOffset : ...]) of one view.
CopyChunk(c, chunk, buffer) ==
    LET chunkStart == Max(chunk.LogicOffset, c.startOffset)
        chunkStop == Min(chunk.LogicOffset + chunk.Size, c.startOffset + c.remaining)
        bufferOffset == chunkStart - chunk.LogicOffset + chunk.Offset
        dst == c.startOffset - c.offset
        copied == chunkStop - chunkStart
    IN [c EXCEPT
          !.p = [j \in 1..Len(c.p) |->
                    IF dst < j /\ j <= dst + copied
                    THEN buffer[bufferOffset + (j - dst)] ELSE c.p[j]],
          !.n = @ + copied,
          !.startOffset = @ + copied,
          !.remaining = @ - copied]

\* Walk without the test of lastChunkFileId in readFromWholeChunkData.
RECURSIVE WalkNoSlot(_, _, _, _)
WalkNoSlot(views, lastId, lastData, c) ==
    IF c.i > Len(views) \/ c.remaining <= 0 THEN [c EXCEPT !.pc = "end"]
    ELSE
      LET chunk == views[c.i]
          hasGap == c.startOffset < chunk.LogicOffset
          gap == chunk.LogicOffset - c.startOffset
          c1 == IF hasGap
                THEN [c EXCEPT !.n = @ + Min(gap, c.remaining),
                               !.startOffset = chunk.LogicOffset,
                               !.remaining = @ - gap]
                ELSE c
          chunkStart == Max(chunk.LogicOffset, c1.startOffset)
          chunkStop == Min(chunk.LogicOffset + chunk.Size, c1.startOffset + c1.remaining)
      IN IF hasGap /\ c1.remaining <= 0 THEN [c1 EXCEPT !.pc = "end"]
         ELSE IF chunkStart >= chunkStop
              THEN WalkNoSlot(views, lastId, lastData, [c1 EXCEPT !.i = @ + 1])
         ELSE [c1 EXCEPT !.pc = "do"]

\* Walk without the test chunkStart >= chunkStop: every view the loop comes
\* to is asked for.
RECURSIVE WalkEveryView(_, _, _, _)
WalkEveryView(views, lastId, lastData, c) ==
    IF c.i > Len(views) \/ c.remaining <= 0 THEN [c EXCEPT !.pc = "end"]
    ELSE
      LET chunk == views[c.i]
          hasGap == c.startOffset < chunk.LogicOffset
          gap == chunk.LogicOffset - c.startOffset
          c1 == IF hasGap
                THEN [c EXCEPT !.n = @ + Min(gap, c.remaining),
                               !.startOffset = chunk.LogicOffset,
                               !.remaining = @ - gap]
                ELSE c
      IN IF hasGap /\ c1.remaining <= 0 THEN [c1 EXCEPT !.pc = "end"]
         ELSE IF lastId = chunk.FileId
              THEN WalkEveryView(views, lastId, lastData, [c1 EXCEPT !.i = @ + 1])
         ELSE [c1 EXCEPT !.pc = "do"]

\* The loop of doReadAt from view c.i on, with the recency slot (lastId,
\* lastData), up to the first view whose chunk is not in the slot
\* (pc "do", the cursor standing after that view's gap) or to the end of the
\* loop (pc "end").  (c \in {c0}: the state c0 of the call is evaluated once.)
RECURSIVE Walk(_, _, _, _)
Walk(views, lastId, lastData, c0) ==
  CHOOSE result \in {
    IF c.i > Len(views) \/ c.remaining <= 0 THEN [c EXCEPT !.pc = "end"]
    ELSE
      LET chunk == views[c.i]
          hasGap == c.startOffset < chunk.LogicOffset
          gap == chunk.LogicOffset - c.startOffset
          c1 == IF hasGap
                THEN [c EXCEPT !.n = @ + Min(gap, c.remaining),
                               !.startOffset = chunk.LogicOffset,
                               !.remaining = @ - gap]
                ELSE c
          chunkStart == Max(chunk.LogicOffset, c1.startOffset)
          chunkStop == Min(chunk.LogicOffset + chunk.Size, c1.startOffset + c1.remaining)
      IN IF hasGap /\ c1.remaining <= 0 THEN [c1 EXCEPT !.pc = "end"]
         ELSE IF chunkStart >= chunkStop
              THEN Walk(views, lastId, lastData, [c1 EXCEPT !.i = @ + 1])
         ELSE IF lastId = chunk.FileId
              THEN Walk(views, lastId, lastData,
                        [CopyChunk(c1, chunk, lastData) EXCEPT !.i = @ + 1])
         ELSE [c1 EXCEPT !.pc = "do"]
    : c \in {c0} } : TRUE

\* Trailing counting the whole rest of the buffer as trailing gap.
TrailingPastSize(c, size) ==
    LET zero2 == c.remaining > 0 /\ size > c.startOffset
    IN [c EXCEPT
          !.n = IF zero2 THEN @ + c.remaining ELSE @,
          !.err = IF c.offset + Len(c.p) >= size THEN "EOF" ELSE "nil",
          !.pc = "done"]

\* Trailing reporting end of file only for a window that ends past fileSize.
TrailingStrictEof(c, size) ==
    LET zero2 == c.remaining > 0 /\ size > c.startOffset
    IN [c EXCEPT
          !.n = IF zero2 THEN @ + Min(c.remaining, size - c.startOffset) ELSE @,
          !.err = IF c.offset + Len(c.p) > size THEN "EOF" ELSE "nil",
          !.pc = "done"]

\* The code of doReadAt after the loop: the trailing gap and end of file.
Trailing(c, size) ==
    LET zero2 == c.remaining > 0 /\ size > c.startOffset
    IN [c EXCEPT
          !.n = IF zero2 THEN @ + Min(c.remaining, size - c.startOffset) ELSE @,
          !.err = IF c.offset + Len(c.p) >= size THEN "EOF" ELSE "nil",
          !.pc = "done"]

\* Walk, and return from doReadAt when the loop has ended.
Proceed(views, size, lastId, lastData, c) ==
    CHOOSE result \in
       {IF w.pc = "end" THEN Trailing(w, size) ELSE w :
          w \in {Walk(views, lastId, lastData, c)}} : TRUE

\* ----------------------------------------------------------------- ReadAt
\* ReadAt without the lock.
LockIgnored(r) == TRUE

\* c.readerLock.Lock() can return.
LockFree(r) == readerLock[r] = ""

\* Unlock on the returns without a fetch error only.
UnlockOnSuccess(c) ==
    readerLock' = IF c.pc = "done" /\ c.err \notin FetchErrors
                  THEN [readerLock EXCEPT ![c.r] = ""]
                  ELSE readerLock

\* defer c.readerLock.Unlock()
Unlock(c) ==
    readerLock' = IF c.pc = "done" THEN [readerLock EXCEPT ![c.r] = ""]
                                    ELSE readerLock

\* ReadAt(p, offset) on reader r: take the lock and walk up to the first view
\* that needs readOneWholeChunk, or return.
ReadAt(t, r, offset, len, fill) ==
    /\ call[t].pc \in {"idle", "done"}
    /\ LockFree(r)
    /\ LET c0 == [NoCall EXCEPT !.r = r, !.offset = offset,
                                !.p = [j \in 1..len |-> fill],
                                !.startOffset = offset, !.remaining = len,
                                !.i = 1,
                                !.reissue = /\ healthy
                                            /\ call[t].pc = "done"
                                            /\ call[t].err \in FetchErrors
                                            /\ call[t].r = r
                                            /\ call[t].offset = offset
                                            /\ Len(call[t].p) = len]
           c1 == Proceed(chunkViews, fileSize, lastChunkFileId[r], lastChunkData[r], c0)
       IN /\ call' = [call EXCEPT ![t] = c1]
          /\ readerLock' = IF c1.pc = "done" THEN readerLock
                            ELSE [readerLock EXCEPT ![r] = t]
    /\ UNCHANGED <<file, lastChunkFileId, lastChunkData, vidCache, chunkCache,
                   flights, ra, healthy, concurrent, dirVars>>

\* ------------------------------------------------------ readOneWholeChunk
\* fetchGroup.Do never finding a call in flight.
InFlightNever(r, k) == FALSE

\* fetchGroup.Do finds a call for the key in flight.
InFlight(r, k) == \E f \in BagToSet(flights) : f.r = r /\ f.k = k

\* The caller calls c.fetchGroup.Do(chunkView.FileId, fn) for view i.
DoCall(t) ==
    LET c == call[t]
        k == chunkViews[c.i].FileId
    IN /\ c.pc = "do"
       /\ IF InFlight(c.r, k)
          THEN /\ call' = [call EXCEPT ![t].pc = "wait", ![t].coord = @ + 1,
                                        ![t].joined = TRUE]
               /\ UNCHANGED flights
          ELSE /\ call' = [call EXCEPT ![t].pc = "exec", ![t].coord = @ + 1,
                                        ![t].joined = FALSE]
               /\ flights' = flights (+) SetToBag({[r |-> c.r, k |-> k,
                                                     stage |-> "fn", by |-> t,
                                                     found |-> FALSE, urls |-> << >>]})
       /\ UNCHANGED <<file, readerLock, lastChunkFileId, lastChunkData, vidCache,
                      chunkCache, ra, healthy, concurrent, dirVars>>

\* go c.readOneWholeChunk(nextChunkView): the goroutine calls fetchGroup.Do.
RaStart(g) ==
    /\ g \in BagToSet(ra)
    /\ g.pc = "spawned"
    /\ IF InFlight(g.r, g.k)
       THEN /\ ra' = (ra (-) SetToBag({g})) (+) SetToBag({[g EXCEPT !.pc = "wait"]})
            /\ UNCHANGED flights
       ELSE /\ ra' = ra (-) SetToBag({g})
            /\ flights' = flights (+) SetToBag({[r |-> g.r, k |-> g.k,
                                                  stage |-> "fn", by |-> "ra",
                                                  found |-> FALSE, urls |-> << >>]})
    /\ UNCHANGED <<file, readerLock, lastChunkFileId, lastChunkData, vidCache,
                   chunkCache, call, healthy, concurrent, dirVars>>

\* Read-ahead goroutines alive: those of the bag, which wait or have not
\* called fetchGroup.Do yet, and those that run fn.
LiveRa(goroutines) ==
    BagCardinality(goroutines)
    + BagCardinality([f \in {x \in DOMAIN flights : x.by = "ra"} |-> flights[f]])

\* Received dropping the byte count when the fetch failed.
ReceivedDropCount(c, data, err, by) ==
    IF err # "nil"
    THEN [c EXCEPT !.pc = "done", !.err = err, !.errBy = by, !.buffer = << >>,
                   !.n = 0]
    ELSE LET chunk == chunkViews[c.i]
         IN Proceed(chunkViews, fileSize, chunk.FileId, data,
                    [CopyChunk(c, chunk, data) EXCEPT !.i = @ + 1, !.buffer = << >>,
                                                      !.joined = FALSE])

\* readFromWholeChunkData after readOneWholeChunk returned (data, err) for
\* view c.i, and the rest of the walk up to the next readOneWholeChunk.
Received(c, data, err, by) ==
    IF err # "nil"
    THEN [c EXCEPT !.pc = "done", !.err = err, !.errBy = by, !.buffer = << >>]
    ELSE LET chunk == chunkViews[c.i]
         IN Proceed(chunkViews, fileSize, chunk.FileId, data,
                    [CopyChunk(c, chunk, data) EXCEPT !.i = @ + 1, !.buffer = << >>,
                                                      !.joined = FALSE])

\* NextChunks launching the read-ahead also after a failed fetch.
NextChunksOnError(c, err) ==
    IF c.i < Len(chunkViews)
    THEN SetToBag({[r |-> c.r, k |-> chunkViews[c.i + 1].FileId, pc |-> "spawned"]})
    ELSE EmptyBag

\* for _, nextChunkView := range nextChunkViews { go c.readOneWholeChunk(..) }
NextChunks(c, err) ==
    IF err = "nil" /\ c.i < Len(chunkViews)
    THEN SetToBag({[r |-> c.r, k |-> chunkViews[c.i + 1].FileId, pc |-> "spawned"]})
    ELSE EmptyBag

\* SetSlot recording the chunk before the error is looked at.
SetSlotOnError(c, data, err) ==
    /\ lastChunkData' = [lastChunkData EXCEPT ![c.r] = data]
    /\ lastChunkFileId' = [lastChunkFileId EXCEPT ![c.r] = chunkViews[c.i].FileId]

\* SetSlot recording the id of the chunk without its bytes.
SetSlotIdOnly(c, data, err) ==
    /\ lastChunkData' = lastChunkData
    /\ lastChunkFileId' = IF err = "nil"
                           THEN [lastChunkFileId EXCEPT ![c.r] = chunkViews[c.i].FileId]
                           ELSE lastChunkFileId

\* c.lastChunkData = chunkData; c.lastChunkFileId = chunkView.FileId
SetSlot(c, data, err) ==
    /\ lastChunkData' = IF err = "nil" THEN [lastChunkData EXCEPT ![c.r] = data]
                                        ELSE lastChunkData
    /\ lastChunkFileId' = IF err = "nil"
                           THEN [lastChunkFileId EXCEPT ![c.r] = chunkViews[c.i].FileId]
                           ELSE lastChunkFileId

\* Handed giving the bytes without the error.
HandedNoError(c, data, err, by) ==
    [c EXCEPT !.pc = "got", !.buffer = data, !.err = "nil", !.errBy = by]

\* fetchGroup.Do returns to a caller that waited what fn returned.
Handed(c, data, err, by) ==
    [c EXCEPT !.pc = "got", !.buffer = data, !.err = err, !.errBy = by]

RemoveAll(B, e) == [x \in (DOMAIN B) \ {e} |-> B[x]]

\* Waits handing the result to a caller of the reader that has not joined.
WaitsAny(t, f) ==
    /\ call[t].pc \in {"wait", "do"}
    /\ call[t].r = f.r

\* Caller t waits in fetchGroup.Do for the call that flight f is.
Waits(t, f) ==
    /\ call[t].pc = "wait"
    /\ call[t].r = f.r
    /\ chunkViews[call[t].i].FileId = f.k

\* fn of flight f returns (data, err): the key is released, everyone waiting
\* for it receives (data, err), and a caller that ran fn itself goes on.
Complete(f, data, err) ==
    LET by == IF f.by \in Callers THEN "fg" ELSE "ra"
        waits(t) == Waits(t, f)
    IN /\ flights' = flights (-) SetToBag({f})
       /\ IF f.by \in Callers
          THEN \E c \in {Received(call[f.by], data, err, by)},
                  next \in {NextChunks(call[f.by], err)},
                  woken \in {RemoveAll(ra, [r |-> f.r, k |-> f.k, pc |-> "wait"])} :
                  /\ next # EmptyBag => LiveRa(woken) < MaxReadAhead
                  /\ ra' = woken (+) next
                  /\ call' = [t \in Callers |->
                                 IF t = f.by THEN c
                                 ELSE IF waits(t)
                                 THEN Handed(call[t], data, err, by)
                                 ELSE call[t]]
                  /\ SetSlot(call[f.by], data, err)
                  /\ Unlock(c)
          ELSE /\ ra' = RemoveAll(ra, [r |-> f.r, k |-> f.k, pc |-> "wait"])
               /\ call' = [t \in Callers |->
                                 IF waits(t)
                                 THEN Handed(call[t], data, err, by)
                                 ELSE call[t]]
               /\ UNCHANGED <<lastChunkData, lastChunkFileId, readerLock>>

\* A caller that waited in fetchGroup.Do goes on with the result.
Resume(t) ==
    /\ call[t].pc = "got"
    /\ \E c0 \in {call[t]} :
       \E c \in {Received([c0 EXCEPT !.err = "nil", !.errBy = ""],
                           c0.buffer, c0.err, c0.errBy)},
          next \in {NextChunks(c0, c0.err)} :
          /\ next # EmptyBag => LiveRa(ra) < MaxReadAhead
          /\ ra' = ra (+) next
          /\ call' = [call EXCEPT ![t] = c]
          /\ SetSlot(c0, c0.buffer, c0.err)
          /\ Unlock(c)
    /\ UNCHANGED <<file, vidCache, chunkCache, flights, healthy, concurrent, dirVars>>

\* FnGetChunk not looking into the chunk cache.
FnGetChunkNoCache(f) ==
    /\ f \in BagToSet(flights)
    /\ f.stage = "fn"
    /\ flights' = (flights (-) SetToBag({f}))
                   (+) SetToBag({[f EXCEPT !.stage = "lookup"]})
    /\ UNCHANGED <<readerLock, lastChunkFileId, lastChunkData, ra, call>>
    /\ UNCHANGED <<file, vidCache, chunkCache, healthy, concurrent, dirVars>>

\* data := c.chunkCache.GetChunk(chunkView.FileId, chunkView.ChunkSize)
FnGetChunk(f) ==
    /\ f \in BagToSet(flights)
    /\ f.stage = "fn"
    /\ IF chunkCache[f.k] # << >>
       THEN Complete(f, chunkCache[f.k], "nil")
       ELSE /\ flights' = (flights (-) SetToBag({f}))
                           (+) SetToBag({[f EXCEPT !.stage = "lookup"]})
            /\ UNCHANGED <<readerLock, lastChunkFileId, lastChunkData, ra, call>>
    /\ UNCHANGED <<file, vidCache, chunkCache, healthy, concurrent, dirVars>>

\* targetUrl := fmt.Sprintf("http://%s/%s", volumeServerAddress, fileId)
TargetUrl(loc, fileId) == <<"http://", loc, "/", fileId>>

\* for _, loc := range locations.Locations { targetUrls = append(..) }
RECURSIVE TargetUrls(_, _)
TargetUrls(locations, fileId) ==
    IF locations = << >> THEN << >>
    ELSE <<TargetUrl(Head(locations), fileId)>> \o TargetUrls(Tail(locations), fileId)

\* Swap writing one side only.
SwapOneSide(urls, i, j) ==
    [x \in 1..Len(urls) |-> IF x = i + 1 THEN urls[j + 1] ELSE urls[x]]

\* targetUrls[i], targetUrls[j] = targetUrls[j], targetUrls[i]  (from 0)
Swap(urls, i, j) ==
    [x \in 1..Len(urls) |-> IF x = i + 1 THEN urls[j + 1]
                            ELSE IF x = j + 1 THEN urls[i + 1] ELSE urls[x]]

\* for i := len(targetUrls) - 1; i > 0; i-- { j := rand.Intn(i + 1); swap }:
\* the lists the loop can leave, from index i down.
RECURSIVE Shuffle(_, _)
Shuffle(targetUrls, i) ==
    UNION {IF i <= 0 THEN {urls}
           ELSE UNION {Shuffle(Swap(urls, i, j), i - 1) : j \in 0..i} :
             urls \in {targetUrls}}

\* What lookupFileId returns for fileId once it has the locations.
Returned(locations, fileId) ==
    LET targetUrls == TargetUrls(locations, fileId)
    IN Shuffle(targetUrls, Len(targetUrls) - 1)

\* Found never finding the volume.
FoundNever(r, vid) == FALSE

\* locations, found := vidCache[vid]
Found(r, vid) == vidCache[r][vid] # << >>

\* fetchChunk calls lookupFileId, the closure of LookupFn: it reads the
\* vidCache under the read lock; when the volume is found it returns the
\* urls, otherwise it goes on to LookupVolume.
FnLookup(f) ==
    /\ f \in BagToSet(flights)
    /\ f.stage = "lookup"
    /\ LET vid == VolumeId(f.k)
       IN IF Found(f.r, vid)
          THEN \E urls \in Returned(vidCache[f.r][vid], f.k) :
                  flights' = (flights (-) SetToBag({f}))
                             (+) SetToBag({[f EXCEPT !.stage = "wire", !.found = TRUE,
                                                     !.urls = urls]})
          ELSE flights' = (flights (-) SetToBag({f}))
                              (+) SetToBag({[f EXCEPT !.stage = "rpc"]})
    /\ UNCHANGED <<file, readerLock, lastChunkFileId, lastChunkData, vidCache,
                   chunkCache, ra, call, healthy, concurrent, dirVars>>

\* if locations == nil || len(locations.Locations) == 0 { return error }
Located(locations) == locations # << >>

\* LookupVolume under util.Retry ends with an error or with no location
\* (locations = << >>), or with the locations, which are then cached and
\* turned into the urls.
FnLookupVolume(f, locations) ==
    /\ f \in BagToSet(flights)
    /\ f.stage = "rpc"
    /\ LET vid == VolumeId(f.k)
       IN IF Located(locations)
          THEN /\ vidCache' = [vidCache EXCEPT ![f.r][vid] = locations]
               /\ \E urls \in Returned(locations, f.k) :
                     flights' = (flights (-) SetToBag({f}))
                                (+) SetToBag({[f EXCEPT !.stage = "wire", !.urls = urls]})
               /\ UNCHANGED <<readerLock, lastChunkFileId, lastChunkData, ra, call>>
          ELSE /\ ~healthy
               /\ UNCHANGED vidCache
               /\ Complete(f, << >>, "lookup")
    /\ UNCHANGED <<file, chunkCache, healthy, concurrent, dirVars>>

\* fetchChunk fetches the chunk from the resolved urls, and fn stores what it
\* got: c.chunkCache.SetChunk(chunkView.FileId, data).
FnWire(f, ok) ==
    /\ f \in BagToSet(flights)
    /\ f.stage = "wire"
    /\ IF ok
       THEN /\ chunkCache' = [chunkCache EXCEPT ![f.k] = ChunkData(f.k)]
            /\ Complete(f, ChunkData(f.k), "nil")
       ELSE /\ ~healthy
            /\ UNCHANGED chunkCache
            /\ Complete(f, << >>, "fetch")
    /\ UNCHANGED <<file, vidCache, healthy, concurrent, dirVars>>

\* The chunk cache drops an entry.
Evict(k) ==
    /\ chunkCache[k] # << >>
    /\ chunkCache' = [chunkCache EXCEPT ![k] = << >>]
    /\ UNCHANGED <<file, readerLock, lastChunkFileId, lastChunkData, vidCache,
                   flights, ra, call, healthy, concurrent, dirVars>>

\* From now on lookups and wire fetches succeed.
Recover ==
    /\ ~healthy
    /\ healthy' = TRUE
    /\ UNCHANGED <<file, readerLock, lastChunkFileId, lastChunkData, vidCache,
                   chunkCache, flights, ra, call, concurrent, dirVars>>

Run ==
    \/ \E t \in Active : \E r \in ReadersOf(t), w \in Windows :
          ReadAt(t, r, w[1], w[2], Junk)
    \/ \E t \in Callers : DoCall(t)
    \/ \E t \in Callers : Resume(t)
    \/ \E g \in BagToSet(ra) : RaStart(g)
    \/ \E f \in BagToSet(flights) : FnGetChunk(f)
    \/ \E f \in BagToSet(flights) : FnLookup(f)
    \/ \E f \in BagToSet(flights), locations \in NodeLists \cup {<< >>} :
          FnLookupVolume(f, locations)
    \/ \E f \in BagToSet(flights), ok \in BOOLEAN : FnWire(f, ok)
    \/ \E k \in FileIds : Evict(k)

Next == Run \/ Recover

Spec == Init /\ [][Next]_vars

\* The collaborators can fail at any time.
SpecConcurrent == InitConcurrent /\ [][Run]_vars

Done(t) == call[t].pc = "done"

\* A step of the fn of the flight of reader r for chunk k.
FlightStep(r, k) ==
    \E f \in BagToSet(flights) :
       /\ f.r = r /\ f.k = k
       /\ \/ FnGetChunk(f)
          \/ FnLookup(f)
          \/ \E locations \in NodeLists \cup {<< >>} : FnLookupVolume(f, locations)
          \/ \E ok \in BOOLEAN : FnWire(f, ok)

\* A step of a caller inside readOneWholeChunk, of a goroutine or of a fn.
Steps ==
    \/ \E t \in Callers : DoCall(t) \/ Resume(t)
    \/ \E g \in BagToSet(ra) : RaStart(g)
    \/ \E r \in Readers, k \in FileIds : FlightStep(r, k)

\* The scheduler does not stop while a caller inside ReadAt, a goroutine or
\* a fn can take a step, and every lookup and wire fetch returns.
Fairness == WF_vars(Steps)

\* One caller of one reader calling ReadAt again and again, or two callers
\* of two readers calling ReadAt once each, over the file of two chunks.
InitFair == (Init /\ file = 2) \/ InitConcurrent
Once == concurrent => \A t \in Callers : Done(t) => call'[t].pc = "done"
NextFair == Next /\ Once

\* The callers and the goroutines under a scheduler that does not stop.
SpecFair == InitFair /\ [][NextFair]_vars /\ Fairness

\* ------------------------------------------------------ directory handles
\* The mutex of wfs.dhmap is held over the whole of the insertion of
\* AcquireDirectoryHandle, of GetDirectoryHandle and of
\* ReleaseDirectoryHandle: each is one step.  nextFh is 64 bits wide and
\* counter 32 bits; both stay far below their widths here.
readerVars == <<file, readerLock, lastChunkFileId, lastChunkData, vidCache,
                chunkCache, flights, ra, call, healthy, concurrent>>

Put(m, k, v) == [x \in DOMAIN m \cup {k} |-> IF x = k THEN v ELSE m[x]]
Delete(m, k) == [x \in DOMAIN m \ {k} |-> m[x]]

\* dh := &DirectoryHandle{isFinished: false, lastEntryName: ""}, the object
\* numbered obj; emitted is the history of the listed entries added to the
\* DirEntryLists of the calls on the handle.
NewHandle(obj) ==
    [obj |-> obj, isFinished |-> FALSE, counter |-> 0, lastEntryName |-> "",
     emitted |-> << >>]

\* wfs.fhmap.Lock() not waiting for the holder.
FhmapFreeAlways == TRUE

\* wfs.fhmap.Lock() goes on once nobody holds the mutex.
FhmapFree == fhmapLock = ""

\* wfs.fhmap.Lock()
AcquireLock(t) ==
    /\ dcall[t].pc = "idle"
    /\ nextFh < MaxFh
    /\ FhmapFree
    /\ fhmapLock' = t
    /\ dcall' = [dcall EXCEPT ![t] = [NoDirCall EXCEPT !.pc = "locked",
                                                       !.op = "acquire"]]
    /\ UNCHANGED <<nextFh, dir2inode, allocated, issued, acquired, readerVars>>

\* fh := wfs.fhmap.nextFh
AcquireRead(t) ==
    /\ dcall[t].pc = "locked"
    /\ dcall' = [dcall EXCEPT ![t].pc = "read", ![t].fh = nextFh]
    /\ UNCHANGED <<nextFh, fhmapLock, dir2inode, allocated, issued, acquired,
                   readerVars>>

\* wfs.fhmap.nextFh++; wfs.fhmap.Unlock()
AcquireUnlock(t) ==
    /\ dcall[t].pc = "read"
    /\ nextFh' = nextFh + 1
    /\ fhmapLock' = IF fhmapLock = t THEN "" ELSE fhmapLock
    /\ dcall' = [dcall EXCEPT ![t].pc = "unlocked"]
    /\ UNCHANGED <<dir2inode, allocated, issued, acquired, readerVars>>

\* wfs.dhmap.dir2inode[DirectoryHandleId(fh)] = dh; return fh, dh
AcquireInsert(t) ==
    /\ dcall[t].pc = "unlocked"
    /\ allocated' = allocated + 1
    /\ dir2inode' = Put(dir2inode, dcall[t].fh, NewHandle(allocated'))
    /\ dcall' = [dcall EXCEPT ![t].pc = "idle", ![t].dh = allocated']
    /\ issued' = issued (+) SetToBag({dcall[t].fh})
    /\ acquired' = acquired \cup {<<dcall[t].fh, allocated'>>}
    /\ UNCHANGED <<nextFh, fhmapLock, readerVars>>

\* A file handle takes its id from nextFh under the mutex of wfs.fhmap.
AcquireFileHandle ==
    /\ nextFh < MaxFh
    /\ FhmapFree
    /\ nextFh' = nextFh + 1
    /\ issued' = issued (+) SetToBag({nextFh})
    /\ UNCHANGED <<fhmapLock, dir2inode, allocated, dcall, acquired, readerVars>>

\* The map GetDirectoryHandle(dhid) leaves: a handle that is not found is
\* created and inserted.
Inserted(dhid) ==
    IF dhid \in DOMAIN dir2inode THEN dir2inode
    ELSE Put(dir2inode, dhid, NewHandle(allocated + 1))
Allocated(dhid) ==
    IF dhid \in DOMAIN dir2inode THEN allocated ELSE allocated + 1

GetDirectoryHandle(t, dhid) ==
    /\ dcall[t].pc = "idle"
    /\ Allocated(dhid) <= MaxFh + 1
    /\ dir2inode' = Inserted(dhid)
    /\ allocated' = Allocated(dhid)
    /\ dcall' = [dcall EXCEPT ![t] = [NoDirCall EXCEPT !.op = "get", !.fh = dhid,
                                         !.dh = Inserted(dhid)[dhid].obj]]
    /\ UNCHANGED <<nextFh, fhmapLock, issued, acquired, readerVars>>

\* delete(wfs.dhmap.dir2inode, dhid)
ReleaseDirectoryHandle(t, dhid) ==
    /\ dcall[t].pc = "idle"
    /\ dir2inode' = Delete(dir2inode, dhid)
    /\ acquired' = {a \in acquired : a[1] # dhid}
    /\ dcall' = [dcall EXCEPT ![t] = NoDirCall]
    /\ UNCHANGED <<nextFh, fhmapLock, allocated, issued, readerVars>>

\* ---------------------------------------------------------- doReadDirectory
\* A DirEntryList takes size entries: AddDirEntry and AddDirLookupEntry add
\* the entry and succeed while there is room.
Fits(out) == Len(out.entries) < out.size
AddDirEntry(out, name) ==
    IF Fits(out) THEN [out EXCEPT !.entries = Append(@, name)] ELSE out

\* The place of a name in the directory, 0 for "".
Index(name) ==
    IF name = "" THEN 0
    ELSE CHOOSE i \in 1..Len(DirEntries) : DirEntries[i] = name

\* for "." and "..": dh.counter++; out.AddDirEntry(dirEntry)
Dots(l) ==
    [dh |-> [l.dh EXCEPT !.counter = @ + 2],
     out |-> AddDirEntry(AddDirEntry(l.out, "."), "..")]

\* ListDirectoryEntries hands the entries from the i-th on to
\* processEachEntryFn, in order, until it returns false.
RECURSIVE ListDirectoryEntries(_, _)
ListDirectoryEntries(l, i) ==
    IF i > Len(DirEntries) THEN l
    ELSE IF Fits(l.out)
         THEN ListDirectoryEntries(
                [dh |-> [l.dh EXCEPT !.counter = @ + 1,
                                     !.lastEntryName = DirEntries[i],
                                     !.emitted = Append(@, DirEntries[i])],
                 out |-> AddDirEntry(l.out, DirEntries[i])], i + 1)
         ELSE [l EXCEPT !.dh.counter = @ + 1]

\* if dh.counter < input.Length { dh.isFinished = true }
Finish(dh, length) ==
    IF dh.counter < length THEN [dh EXCEPT !.isFinished = TRUE] ELSE dh

\* What a call of doReadDirectory leaves of the handle dh and in out; err is
\* the collaborator that fails: "visit" EnsureVisited, "list"
\* ListDirectoryEntries before its first entry.
ReadDirectory(dh, offset, length, size, isPlusMode, err) ==
    LET l0 == [dh |-> dh, out |-> [size |-> size, entries |-> << >>]]
        l1 == IF offset = 0 /\ ~isPlusMode THEN Dots(l0) ELSE l0
        l2 == ListDirectoryEntries(l1, Index(l1.dh.lastEntryName) + 1)
    IN IF dh.isFinished THEN [dh |-> dh, out |-> l0.out, code |-> "OK"]
       ELSE IF err # "nil" THEN [dh |-> l1.dh, out |-> l1.out, code |-> "EIO"]
       ELSE [dh |-> Finish(l2.dh, length), out |-> l2.out, code |-> "OK"]

doReadDirectory(t, fh, offset, length, size, isPlusMode, err) ==
    /\ dcall[t].pc = "idle"
    /\ Allocated(fh) <= MaxFh + 1
    /\ \E l \in {ReadDirectory(Inserted(fh)[fh], offset, length, size, isPlusMode, err)} :
          /\ l.dh.counter <= MaxCounter
          /\ dir2inode' = Put(Inserted(fh), fh, l.dh)
          /\ dcall' = [dcall EXCEPT ![t] = [NoDirCall EXCEPT !.op = "read",
                                               !.fh = fh, !.dh = l.dh.obj,
                                               !.out = l.out.entries,
                                               !.code = l.code]]
    /\ allocated' = Allocated(fh)
    /\ UNCHANGED <<nextFh, fhmapLock, issued, acquired, readerVars>>

ReadDir(t, fh, offset, length, size, err) ==
    doReadDirectory(t, fh, offset, length, size, FALSE, err)

ReadDirPlus(t, fh, offset, length, size, err) ==
    doReadDirectory(t, fh, offset, length, size, TRUE, err)

\* The inputs of a read: input.Offset is 0 or not, the DirEntryList takes
\* up to all the entries and the two dots, and input.Length is any number up
\* to one more than the largest counter.
Offsets == {0, 1}
Lengths == 0..(MaxCounter + 1)
Sizes == 0..(Len(DirEntries) + 2)
DirErrors == {"nil", "visit", "list"}
HandleIds == 0..(MaxFh - 1)

\* Two callers open and release directories and look handles up while file
\* handles are opened.
NextDir ==
    \/ \E t \in DirCallers : AcquireLock(t)
    \/ \E t \in DirCallers : AcquireRead(t)
    \/ \E t \in DirCallers : AcquireUnlock(t)
    \/ \E t \in DirCallers : AcquireInsert(t)
    \/ AcquireFileHandle
    \/ \E t \in DirCallers, dhid \in HandleIds : GetDirectoryHandle(t, dhid)
    \/ \E t \in DirCallers, dhid \in HandleIds : ReleaseDirectoryHandle(t, dhid)

InitDir == Init /\ file = 1

SpecDir == InitDir /\ [][NextDir]_vars

\* One caller opens a directory, reads it call after call and releases it
\* before it opens the next.
NextList ==
    \/ dir2inode = << >> /\ AcquireLock("d1")
    \/ AcquireRead("d1")
    \/ AcquireUnlock("d1")
    \/ AcquireInsert("d1")
    \/ \E fh \in DOMAIN dir2inode, offset \in Offsets, length \in Lengths,
          size \in Sizes, err \in DirErrors :
          ReadDir("d1", fh, offset, length, size, err)
    \/ \E fh \in DOMAIN dir2inode, offset \in Offsets, length \in Lengths,
          size \in Sizes, err \in DirErrors :
          ReadDirPlus("d1", fh, offset, length, size, err)
    \/ \E fh \in DOMAIN dir2inode : ReleaseDirectoryHandle("d1", fh)

SpecList == InitDir /\ [][NextList]_vars

\* ----------------------------------------------------------------- claims
Succeeded(t) == Done(t) /\ call[t].err \notin FetchErrors
Failed(t) == Done(t) /\ call[t].err \in FetchErrors
Walking(t) == call[t].pc \in {"do", "exec", "wait", "got"}

\* The logical position of byte j of the buffer of caller t.
Pos(t, j) == call[t].offset + j - 1
Covers(v, pos) ==
    /\ chunkViews[v].LogicOffset <= pos
    /\ pos < chunkViews[v].LogicOffset + chunkViews[v].Size
\* The views that intersect the window of caller t.
Intersecting(t) ==
    {v \in 1..Len(chunkViews) : \E j \in 1..Len(call[t].p) : Covers(v, Pos(t, j))}
\* Flights of reader r for chunk k that run fn, and those at the wire fetch.
Running(r, k) ==
    [f \in {x \in DOMAIN flights : x.r = r /\ x.k = k} |-> flights[f]]
Fetching(k) ==
    [f \in {x \in DOMAIN flights : x.k = k /\ x.stage \in {"lookup", "rpc", "wire"}}
       |-> flights[f]]

\* C1 (as stated): requests for one chunkId, from one or from several
\* readers, never have more than one wire fetch of it under way.
SingleFetchAcrossReaders ==
    \A k \in FileIds : BagCardinality(Fetching(k)) <= 1

\* C1 (amended): in one reader at most one execution of the fetch function,
\* so at most one wire fetch, is under way for a chunkId; whoever waits, waits
\* for such an execution, and who has received bytes has the chunk's bytes.
SingleFetchPerReader ==
    /\ \A r \in Readers, k \in FileIds : BagCardinality(Running(r, k)) <= 1
    /\ \A t \in Callers :
          /\ call[t].pc = "wait" =>
                BagCardinality(Running(call[t].r, chunkViews[call[t].i].FileId)) = 1
          /\ call[t].pc = "got" /\ call[t].err = "nil" =>
                call[t].buffer = ChunkData(chunkViews[call[t].i].FileId)
    /\ \A g \in BagToSet(ra) :
          g.pc = "wait" => BagCardinality(Running(g.r, g.k)) = 1

\* Two readers each run the wire fetch of the same chunk at the same time,
\* and in one of them a second request waits for it.
SingleFetchWitness ==
    /\ \E f, g \in BagToSet(flights) :
          f.r # g.r /\ f.k = g.k /\ f.stage = "wire" /\ g.stage = "wire"
    /\ \/ \E t \in Callers : call[t].pc = "wait"
       \/ \E g \in BagToSet(ra) : g.pc = "wait"

\* C2: after a ReadAt without fetch error every byte of p whose position
\* lies in a view is the byte pos - LogicOffset + Offset of that view's chunk.
DataBytesPlaced ==
    \A t \in Callers : Succeeded(t) =>
       \A j \in 1..Len(call[t].p), v \in 1..Len(chunkViews) :
          Covers(v, Pos(t, j)) =>
             call[t].p[j] = ChunkData(chunkViews[v].FileId)
                               [Pos(t, j) - chunkViews[v].LogicOffset
                                + chunkViews[v].Offset + 1]

\* A read of [2,5) over a[1,3) - gap - b[4,5) returned the last byte of the
\* view of a and the byte of b.
DataBytesWitness ==
    \E t \in Callers :
       /\ Succeeded(t) /\ file = 2 /\ call[t].offset = 2
       /\ Len(call[t].p) = 3 /\ call[t].p[1] = 13 /\ call[t].p[3] = 21

\* C3: after a ReadAt without fetch error every byte of p whose position is
\* below fileSize and in no view is zero.
GapsReadZero ==
    \A t \in Callers : Succeeded(t) =>
       \A j \in 1..Len(call[t].p) :
          (/\ Pos(t, j) < fileSize
           /\ \A v \in 1..Len(chunkViews) : ~Covers(v, Pos(t, j)))
          => call[t].p[j] = 0

\* C4: a ReadAt without fetch error returns
\* n = min(len(p), max(0, fileSize - offset)).
BytesWritten ==
    \A t \in Callers : Succeeded(t) =>
       call[t].n = Min(Len(call[t].p), Max(0, fileSize - call[t].offset))

\* A window that begins one byte before fileSize and ends past it returned 1.
BytesWrittenWitness ==
    \E t \in Callers :
       /\ Succeeded(t) /\ call[t].offset = fileSize - 1
       /\ Len(call[t].p) >= 2 /\ call[t].n = 1

\* C5: ReadAt returns io.EOF exactly when the call met no fetch error and
\* offset + len(p) >= fileSize; a call that met a fetch error returns it.
EofIff ==
    \A t \in Callers : Done(t) =>
       /\ call[t].err = "EOF" <=>
             (call[t].errBy = "" /\ call[t].offset + Len(call[t].p) >= fileSize)
       /\ call[t].errBy # "" => call[t].err \in FetchErrors

\* End of file came with bytes, for a window that ends exactly at fileSize.
EofWitness ==
    \E t \in Callers :
       /\ Done(t) /\ call[t].err = "EOF" /\ call[t].n > 0
       /\ call[t].offset + Len(call[t].p) = fileSize

\* C6: a ReadAt whose fetch of view i failed returns the error with n = the
\* bytes of the window before view i (copied from earlier views, or gap),
\* those of them that lie in a view being in p, and p untouched from view i
\* on; the call has returned: it holds no lock and runs no fetch.
PartialFailure ==
    \A t \in Callers : Failed(t) =>
       LET c == call[t]
           before == Max(0, chunkViews[c.i].LogicOffset - c.offset)
       IN /\ c.n = before
          /\ 0 <= c.n /\ c.n <= Len(c.p)
          /\ c.i \in Intersecting(t)
          /\ \A j \in 1..Len(c.p), v \in 1..Len(chunkViews) :
                j <= before /\ Covers(v, Pos(t, j)) =>
                   c.p[j] = ChunkData(chunkViews[v].FileId)
                               [Pos(t, j) - chunkViews[v].LogicOffset
                                + chunkViews[v].Offset + 1]
          /\ \A j \in 1..Len(c.p) : j > before => c.p[j] = Junk
          /\ readerLock[c.r] # t
          /\ \A f \in BagToSet(flights) : f.by # t

\* A read of [2,5) over a[1,3) - gap - b[4,5) copied a byte of a, counted
\* the gap and then failed at b.
PartialFailureWitness ==
    \E t \in Callers :
       /\ Failed(t) /\ file = 2 /\ call[t].offset = 2 /\ Len(call[t].p) = 3
       /\ call[t].n = 2 /\ call[t].p = <<13, Junk, Junk>>

\* Caller t begins a ReadAt in this step.
Begins(t) == call[t].pc \in {"idle", "done"} /\ call'[t] # call[t]
\* The view that contains the whole non-empty window of call c, or 0.
InsideView(c) ==
    LET in == {v \in 1..Len(chunkViews) :
                 /\ Len(c.p) >= 1
                 /\ chunkViews[v].LogicOffset <= c.offset
                 /\ c.offset + Len(c.p) <= chunkViews[v].LogicOffset + chunkViews[v].Size}
    IN IF in = {} THEN 0 ELSE CHOOSE v \in in : TRUE
\* Call c returns without having called readOneWholeChunk.
NoFetchCall(c) == c.pc = "done" /\ c.coord = 0 /\ c.errBy = ""
\* The views that intersect the window of call c.
ViewsOf(c) ==
    {v \in 1..Len(chunkViews) :
       \E j \in 1..Len(c.p) : Covers(v, c.offset + j - 1)}

\* C7 (as stated): of two sequential reads of a reader inside the same view
\* at most one calls readOneWholeChunk: when the first has, the second
\* returns without.
SequentialReadsOneFetch ==
    [][\A t \in Callers :
         (/\ Begins(t) /\ Done(t) /\ call'[t].r = call[t].r
          /\ InsideView(call[t]) # 0
          /\ InsideView(call'[t]) = InsideView(call[t])
          /\ call[t].coord >= 1)
         => NoFetchCall(call'[t])]_vars

\* C7 (amended): a call whose window intersects only views of the chunk that
\* the recency slot holds when it begins returns without any call of
\* readOneWholeChunk; so does the second of two sequential reads inside the
\* same view when the first met no fetch error.
RecencyShortCircuit ==
    [][\A t \in Callers :
         /\ (/\ Begins(t) /\ lastChunkFileId[call'[t].r] # ""
             /\ \A v \in ViewsOf(call'[t]) :
                   chunkViews[v].FileId = lastChunkFileId[call'[t].r])
            => NoFetchCall(call'[t])
         /\ (/\ Begins(t) /\ Succeeded(t) /\ call'[t].r = call[t].r
             /\ InsideView(call[t]) # 0
             /\ InsideView(call'[t]) = InsideView(call[t]))
            => NoFetchCall(call'[t])]_vars

\* A read inside a view returned the bytes of the view without any call of
\* readOneWholeChunk: they came from the recency slot.
RecencyWitness ==
    \E t \in Callers :
       /\ Succeeded(t) /\ InsideView(call[t]) # 0 /\ call[t].coord = 0
       /\ call[t].n = Len(call[t].p) /\ call[t].p[1] # Junk
       /\ lastChunkFileId[call[t].r] = chunkViews[InsideView(call[t])].FileId

\* C8: at most one ReadAt is inside doReadAt on a reader, it holds the
\* reader's lock until it returns, also while it fetches or waits; no
\* goroutine holds the lock.
Serialization ==
    \A r \in Readers :
       /\ Cardinality({t \in Callers : Walking(t) /\ call[t].r = r}) <= 1
       /\ \A t \in Callers : Walking(t) /\ call[t].r = r => readerLock[r] = t
       /\ readerLock[r] \in Callers \cup {""}
       /\ readerLock[r] # "" =>
             Walking(readerLock[r]) /\ call[readerLock[r]].r = r

\* c2 holds the lock of r1 while its fetch is at the wire, after c1 has read
\* r1, and a read-ahead goroutine of r1 is running or about to.
SerializationWitness ==
    /\ readerLock["r1"] = "c2" /\ call["c2"].pc = "exec"
    /\ call["c1"].pc = "done"
    /\ \E f \in BagToSet(flights) : f.by = "c2" /\ f.stage = "wire"
    /\ \/ \E f \in BagToSet(flights) : f.by = "ra" /\ f.r = "r1"
       \/ \E g \in BagToSet(ra) : g.r = "r1"

\* C9 (as stated): no ReadAt returns an error of a fetch that a read-ahead
\* goroutine ran.
ReadAheadErrorNeverReturned ==
    \A t \in Callers : Failed(t) => call[t].errBy # "ra"

\* C9 (amended): a ReadAt returns an error of a fetch that a read-ahead
\* goroutine ran only if it called readOneWholeChunk for a view of its own
\* window and found that fetch in flight; and a ReadAt waits only in such a
\* call, for a fetch that is running.
ReadAheadErrorOnlyJoined ==
    \A t \in Callers :
       /\ call[t].pc \in {"got", "done"} /\ call[t].errBy = "ra" =>
             call[t].joined /\ call[t].i \in Intersecting(t)
       /\ call[t].pc = "wait" =>
             /\ call[t].joined /\ call[t].i \in Intersecting(t)
             /\ InFlight(call[t].r, chunkViews[call[t].i].FileId)

\* A ReadAt returned the error of the read-ahead it had joined.
ReadAheadErrorWitness ==
    \E t \in Callers : Failed(t) /\ call[t].errBy = "ra" /\ call[t].joined

\* C10: a failure is kept nowhere: the recency slot and the chunk cache hold
\* nothing but chunk bytes, the location cache nothing but locations, no
\* flight outlives its fn; and a ReadAt that repeats a failed one when the
\* collaborators succeed fetches again and meets no error.
NoErrorCached ==
    /\ \A r \in Readers :
          /\ lastChunkFileId[r] # "" =>
                /\ lastChunkFileId[r] \in FileIds
                /\ lastChunkData[r] = ChunkData(lastChunkFileId[r])
          /\ \A v \in Volumes : vidCache[r][v] \in NodeLists \cup {<< >>}
    /\ \A k \in FileIds : chunkCache[k] \in {<< >>, ChunkData(k)}
    /\ \A f \in BagToSet(flights) : f.stage \in {"fn", "lookup", "rpc", "wire"}
    /\ \A t \in Callers :
          call[t].reissue /\ call[t].pc # "idle" =>
             /\ call[t].err \notin FetchErrors
             /\ call[t].pc \in {"exec", "wait", "got", "done"} => call[t].coord >= 1

\* The repeated read returned all its bytes after fetching again.
NoErrorCachedWitness ==
    \E t \in Callers :
       /\ Succeeded(t) /\ call[t].reissue /\ call[t].coord >= 1
       /\ call[t].n = Len(call[t].p) /\ call[t].n > 0

\* A flight of reader r for chunk k takes the stage in this step.
Takes(r, k, stage) ==
    \E f \in BagToSet(flights') :
       /\ f.r = r /\ f.k = k /\ f.stage = stage
       /\ CopiesIn(f, flights') > CopiesIn(f, flights)
\* A flight of reader r for chunk k leaves the stage in this step.
Leaves(r, k, stage) ==
    \E f \in BagToSet(flights) :
       /\ f.r = r /\ f.k = k /\ f.stage = stage
       /\ CopiesIn(f, flights') < CopiesIn(f, flights)

\* C11 (as stated): the location cache is shared by all readers: no reader
\* begins a LookupVolume call for a volume that any reader has resolved.
LocationCacheShared ==
    [][\A r \in Readers, k \in FileIds :
         Takes(r, k, "rpc") =>
            \A r2 \in Readers : vidCache[r2][VolumeId(k)] = << >>]_vars

\* C11 (amended): the location cache belongs to the lookup function of one
\* reader: a resolution by a reader that has resolved the volume is served
\* from its cache, with no LookupVolume call and the cache left as it is; a
\* LookupVolume call begins only when the reader's own cache has no entry,
\* whatever the other readers hold.
LocationCachePerReader ==
    [][\A r \in Readers, k \in FileIds :
         /\ Takes(r, k, "rpc") => vidCache[r][VolumeId(k)] = << >>
         /\ Leaves(r, k, "lookup") /\ vidCache[r][VolumeId(k)] # << >> =>
               /\ ~Takes(r, k, "rpc")
               /\ \E f \in BagToSet(flights') :
                     /\ f.r = r /\ f.k = k /\ f.stage = "wire" /\ f.found
                     /\ f.urls \in Returned(vidCache[r][VolumeId(k)], k)
               /\ vidCache' = vidCache]_vars

\* A reader calls LookupVolume for a volume that another reader holds in
\* its cache, and that reader (or this one) is served a later chunk of the
\* volume from its own cache.
LocationCacheWitness ==
    /\ \E f \in BagToSet(flights), r2 \in Readers :
          /\ f.stage = "rpc" /\ r2 # f.r
          /\ vidCache[r2][VolumeId(f.k)] # << >> /\ vidCache[f.r][VolumeId(f.k)] = << >>
    /\ \E g \in BagToSet(flights) : g.stage = "wire" /\ g.found

\* The callers that receive the result of the flight of reader r for chunk
\* k: the one that runs it and those that wait for it.
Runs(t, r, k) ==
    call[t].pc = "exec" /\ call[t].r = r /\ chunkViews[call[t].i].FileId = k
Joined(t, r, k) ==
    call[t].pc = "wait" /\ call[t].r = r /\ chunkViews[call[t].i].FileId = k
\* In this step every caller of the flight of r for k receives data.
AllReceive(r, k, data) ==
    \A t \in Callers :
       /\ Runs(t, r, k) => /\ lastChunkFileId'[r] = k /\ lastChunkData'[r] = data
                            /\ call'[t].errBy = ""
       /\ Joined(t, r, k) => /\ call'[t].pc = "got" /\ call'[t].buffer = data
                              /\ call'[t].err = "nil"
\* In this step every caller of the flight of r for k receives the error.
AllFail(r, k, err) ==
    \A t \in Callers :
       /\ Runs(t, r, k) => call'[t].pc = "done" /\ call'[t].err = err
       /\ Joined(t, r, k) => call'[t].pc = "got" /\ call'[t].err = err

\* C12: a whole-chunk request that finds its chunkId in the chunk cache
\* returns the cached bytes to its callers and goes to no lookup and no wire
\* fetch; one that misses goes on to the fetch; when the wire fetch succeeds
\* the chunk's bytes are in the cache under that chunkId in the state in
\* which the callers have them; a failed lookup or fetch leaves the cache
\* as it is.
CacheFirst ==
    [][\A r \in Readers, k \in FileIds :
         /\ Leaves(r, k, "fn") /\ chunkCache[k] # << >> =>
               /\ \A f \in BagToSet(flights') : ~(f.r = r /\ f.k = k)
               /\ AllReceive(r, k, chunkCache[k])
               /\ chunkCache' = chunkCache
         /\ Leaves(r, k, "fn") /\ chunkCache[k] = << >> =>
               Takes(r, k, "lookup") /\ chunkCache' = chunkCache
         /\ Leaves(r, k, "rpc") /\ ~Takes(r, k, "wire") =>
               AllFail(r, k, "lookup") /\ chunkCache' = chunkCache
         /\ Leaves(r, k, "wire") =>
               \/ /\ chunkCache' = [chunkCache EXCEPT ![k] = ChunkData(k)]
                  /\ AllReceive(r, k, ChunkData(k))
               \/ /\ chunkCache' = chunkCache
                  /\ AllFail(r, k, "fetch")]_vars

\* A caller that waited has just been handed the bytes that the chunk cache
\* now holds, and a walk has run a fetch function that never left the
\* cache: its reader's location cache is still empty.
CacheFirstWitness ==
    /\ \E t \in Callers :
          /\ call[t].pc = "got" /\ call[t].err = "nil"
          /\ call[t].buffer = chunkCache[chunkViews[call[t].i].FileId]
          /\ call[t].buffer # << >>
    /\ \E r \in Readers :
          /\ lastChunkFileId[r] # ""
          /\ \A v \in Volumes : vidCache[r][v] = << >>

\* The flight of reader r for chunk k.
FlightOf(r, k) == CHOOSE f \in BagToSet(flights) : f.r = r /\ f.k = k
\* The flights of the next state per reader and chunk.
RunningNext(r, k) ==
    [f \in {x \in DOMAIN flights' : x.r = r /\ x.k = k} |-> flights'[f]]

\* C13: a ReadAt that calls readOneWholeChunk for a chunk whose read-ahead
\* fetch by the same reader is in flight starts no second fetch and waits;
\* it stays blocked until that flight ends and is then handed exactly what
\* the flight's fn returned: the cached bytes, the fetched bytes (which the
\* cache then holds), or the error of the lookup or of the wire fetch; a
\* reader never has two flights of one chunkId.
JoinsReadAhead ==
    [][/\ \A t \in Callers :
            LET c == call[t]
                k == chunkViews[c.i].FileId
            IN /\ (/\ c.pc = "do" /\ call'[t] # c
                    /\ \E f \in BagToSet(flights) :
                          f.r = c.r /\ f.k = k /\ f.by = "ra")
                   => /\ call'[t].pc = "wait" /\ call'[t].joined
                      /\ flights' = flights
               /\ c.pc = "wait" /\ call'[t] # c =>
                     LET f == FlightOf(c.r, k)
                         by == IF f.by \in Callers THEN "fg" ELSE "ra"
                     IN /\ CopiesIn(f, flights') < CopiesIn(f, flights)
                        /\ RunningNext(c.r, k) = EmptyBag
                        /\ call'[t].pc = "got" /\ call'[t].errBy = by
                        /\ CASE f.stage = "fn" ->
                                   /\ call'[t].err = "nil"
                                   /\ call'[t].buffer = chunkCache[k]
                                   /\ chunkCache[k] # << >>
                             [] f.stage = "rpc" ->
                                   call'[t].err = "lookup" /\ call'[t].buffer = << >>
                             [] f.stage = "wire" ->
                                   \/ /\ call'[t].err = "nil"
                                      /\ call'[t].buffer = ChunkData(k)
                                      /\ chunkCache'[k] = ChunkData(k)
                                   \/ /\ call'[t].err = "fetch"
                                      /\ call'[t].buffer = << >>
                             [] OTHER -> FALSE
       /\ \A r \in Readers, k \in FileIds :
             BagCardinality(RunningNext(r, k)) <= 1]_vars

\* A ReadAt that joined the read-ahead of its reader has been handed the
\* chunk it fetched.
JoinsReadAheadWitness ==
    \E t \in Callers :
       /\ call[t].pc = "got" /\ call[t].joined /\ call[t].errBy = "ra"
       /\ call[t].err = "nil"
       /\ call[t].buffer = ChunkData(chunkViews[call[t].i].FileId)

\* In this step readOneWholeChunk returns the chunk of view call[t].i to the
\* walk of caller t.
Obtains(t) ==
    /\ call[t].pc \in {"exec", "got"}
    /\ call'[t] # call[t]
    /\ call'[t].errBy = ""
\* A goroutine that has been launched and has not run yet.
Launched(r, k) == [r |-> r, k |-> k, pc |-> "spawned"]

\* C14: a read-ahead goroutine is launched in exactly the steps in which
\* readOneWholeChunk returns the chunk of a view i to a walk and a view i+1
\* exists: one goroutine, for the chunk of view i+1; no step of a walk that
\* only uses the recency slot, fails, or obtains the last view launches one.
ReadAheadTrigger ==
    [][\A r \in Readers, k \in FileIds :
         IF \E t \in Callers :
               /\ Obtains(t) /\ call[t].r = r
               /\ call[t].i < Len(chunkViews)
               /\ chunkViews[call[t].i + 1].FileId = k
         THEN CopiesIn(Launched(r, k), ra') = CopiesIn(Launched(r, k), ra) + 1
         ELSE CopiesIn(Launched(r, k), ra') <= CopiesIn(Launched(r, k), ra)]_vars

\* The walk obtained the first view of a[0,1) a[1,2) b[2,3) by a fetch and
\* the second from the recency slot, and has returned: the one goroutine
\* launched is for a, the chunk of the second view, none for b.
ReadAheadTriggerWitness ==
    /\ file = 3
    /\ \E t \in Callers :
          /\ Succeeded(t) /\ call[t].coord = 1 /\ call[t].offset = 0
          /\ Len(call[t].p) = 2
    /\ ra = SetToBag({Launched("r1", "1,a")})
    /\ flights = EmptyBag

\* C15: a walk asks for the whole chunk of a view only when the view
\* intersects what remains of the window: while the call is in
\* readOneWholeChunk for view i the window has bytes left, the cursor stands
\* inside view i, and everything before the cursor is accounted for; a call
\* never calls readOneWholeChunk more often than views intersect its window.
OnlyIntersectingFetched ==
    \A t \in Callers :
       LET c == call[t]
       IN /\ Walking(t) =>
                /\ c.remaining > 0
                /\ c.i \in 1..Len(chunkViews)
                /\ chunkViews[c.i].LogicOffset <= c.startOffset
                /\ c.startOffset < chunkViews[c.i].LogicOffset + chunkViews[c.i].Size
                /\ c.startOffset = Max(c.offset, chunkViews[c.i].LogicOffset)
                /\ c.startOffset + c.remaining = c.offset + Len(c.p)
                /\ c.coord <= Cardinality({v \in Intersecting(t) : v <= c.i})
          /\ c.pc # "idle" => c.coord <= Cardinality(Intersecting(t))

\* A read of [4,5) over a[1,3) - gap - b[4,5) passed the view of a, which
\* lies before the window, and fetched b alone.
OnlyIntersectingWitness ==
    \E t \in Callers :
       /\ file = 2 /\ Succeeded(t) /\ call[t].offset = 4 /\ Len(call[t].p) = 1
       /\ call[t].coord = 1 /\ call[t].p = <<21>>
       /\ lastChunkFileId[call[t].r] = "1,b"

\* s holds the elements of t, each as often, in some order.
IsPermutation(s, t) ==
    /\ Len(s) = Len(t)
    /\ \A x \in 1..Len(t) :
          Cardinality({y \in 1..Len(s) : s[y] = t[x]})
          = Cardinality({y \in 1..Len(t) : t[y] = t[x]})

\* C16: an entry of a reader's location cache is never removed; an entry is
\* written only when a LookupVolume call of that reader ends, and with a
\* non-empty list of locations; a resolve that finds the entry calls no
\* LookupVolume; and every resolve returns a permutation of the urls of the
\* locations the cache holds then, one for each.
LocationCachePermanent ==
    [][\A r \in Readers :
         /\ \A v \in Volumes :
               /\ vidCache[r][v] # << >> => vidCache'[r][v] # << >>
               /\ vidCache'[r][v] # vidCache[r][v] =>
                     /\ Len(vidCache'[r][v]) >= 1
                     /\ \E k \in FileIds : VolumeId(k) = v /\ Leaves(r, k, "rpc")
         /\ \A k \in FileIds :
               /\ Leaves(r, k, "lookup") /\ vidCache[r][VolumeId(k)] # << >> =>
                     ~Takes(r, k, "rpc") /\ Takes(r, k, "wire")
               /\ Takes(r, k, "wire") =>
                     \A f \in BagToSet(flights') :
                        f.r = r /\ f.k = k =>
                           /\ f.urls # << >>
                           /\ IsPermutation(f.urls,
                                  [x \in 1..Len(vidCache'[r][VolumeId(k)]) |->
                                     <<"http://", vidCache'[r][VolumeId(k)][x], "/", k>>])]_vars

\* A resolve that found the volume in the cache returned the urls of its
\* two locations in the other order.
LocationCachePermanentWitness ==
    \E f \in BagToSet(flights) :
       /\ f.stage = "wire" /\ f.found
       /\ Len(vidCache[f.r][VolumeId(f.k)]) = 2
       /\ f.urls = << <<"http://", vidCache[f.r][VolumeId(f.k)][2], "/", f.k>>,
                      <<"http://", vidCache[f.r][VolumeId(f.k)][1], "/", f.k>> >>

\* What readOneWholeChunk returns to the walk of caller t in a step in which
\* it returns the chunk: what the walk was handed when it had waited, else
\* what the fn it ran found in the cache or fetched.
Obtained(t) ==
    LET c == call[t]
        k == chunkViews[c.i].FileId
    IN IF c.pc = "got" THEN c.buffer
       ELSE IF FlightOf(c.r, k).stage = "fn" THEN chunkCache[k]
       ELSE ChunkData(k)

\* C17: the recency slot of a reader changes only in a step in which
\* readOneWholeChunk returns a chunk to the walk that holds the reader's lock,
\* and then to that chunk's id and those bytes; a step in which the walk's
\* fetch fails, and every step of a read-ahead, leaves both fields as they
\* are; so a slot with an id holds the bytes of the last such fetch of it.
SlotConsistent ==
    [][\A r \in Readers :
         /\ (lastChunkFileId'[r] # lastChunkFileId[r]
              \/ lastChunkData'[r] # lastChunkData[r]) =>
               \E t \in Callers :
                  /\ readerLock[r] = t /\ call[t].r = r /\ Obtains(t)
                  /\ lastChunkFileId'[r] = chunkViews[call[t].i].FileId
                  /\ lastChunkData'[r] = Obtained(t)
         /\ \A t \in Callers :
               (/\ call[t].r = r /\ call[t].pc \in {"exec", "got"}
                /\ call'[t] # call[t]) =>
                  IF call'[t].errBy # ""
                  THEN /\ lastChunkFileId'[r] = lastChunkFileId[r]
                       /\ lastChunkData'[r] = lastChunkData[r]
                  ELSE /\ lastChunkFileId'[r] = chunkViews[call[t].i].FileId
                       /\ lastChunkData'[r] = Obtained(t)
         /\ lastChunkFileId'[r] # "" =>
               lastChunkData'[r] = ChunkData(lastChunkFileId'[r])]_vars

\* A read of [2,5) over a[1,3) - gap - b[4,5) fetched a and failed at b: the
\* slot still holds a and its bytes.
SlotConsistentWitness ==
    \E t \in Callers :
       /\ file = 2 /\ Failed(t) /\ call[t].offset = 2 /\ call[t].coord = 2
       /\ chunkViews[call[t].i].FileId = "1,b"
       /\ lastChunkFileId[call[t].r] = "1,a"
       /\ lastChunkData[call[t].r] = ChunkData("1,a")

\* C18: under a fair scheduler, with lookups and wire fetches that return,
\* every ReadAt that is inside doReadAt, running a fetch or waiting for one,
\* returns and has then released the lock of its reader, whether it ends
\* with bytes, end of file or a fetch error.
EventuallyReturns ==
    \A t \in Callers :
       Walking(t) ~> (Done(t) /\ readerLock[call[t].r] # t)

\* Two callers of one reader have both returned, one with the bytes and one
\* with a fetch error, and the reader's lock is free.
EventuallyReturnsWitness ==
    /\ concurrent
    /\ \A t \in Callers : Done(t) /\ call[t].r = "r1" /\ call[t].coord >= 1
    /\ \E t \in Callers : call[t].err \in FetchErrors
    /\ \E t \in Callers : call[t].err = "nil"
    /\ readerLock["r1"] = ""

\* C19: repeated ReadDir and ReadDirPlus calls on one handle of an unchanging
\* directory emit every entry once and in listing order, and the handle is
\* marked finished only after the last entry has been emitted.
ListingComplete ==
    \A fh \in DOMAIN dir2inode :
       dir2inode[fh].isFinished => dir2inode[fh].emitted = DirEntries

\* C20: every handle id handed out, to a directory or to a file, is handed
\* out once, and from the return of AcquireDirectoryHandle until
\* ReleaseDirectoryHandle(id) the map holds, and GetDirectoryHandle(id)
\* returns, the object the acquire returned.
HandleIdentity ==
    [][/\ \A id \in BagToSet(issued') : CopiesIn(id, issued') = 1
       /\ \A a \in acquired' :
             a[1] \in DOMAIN dir2inode' /\ dir2inode'[a[1]].obj = a[2]
       /\ \A t \in DirCallers, a \in acquired :
             GetDirectoryHandle(t, a[1]) => dcall'[t].dh = a[2]]_vars

\* Two directories are open, the handle of the later id inserted before the
\* handle of the earlier id, and a GetDirectoryHandle has returned the
\* object the acquire of its id returned.
HandleIdentityWitness ==
    /\ BagCardinality(issued) = 2
    /\ \E a, b \in acquired : a[1] < b[1] /\ a[2] > b[2]
    /\ \E t \in DirCallers :
          dcall[t].op = "get" /\ <<dcall[t].fh, dcall[t].dh>> \in acquired

====
